---- MODULE Spec2Model ----
(***************************************************************************)
(* Owned tensor handles (RustOwnerValue) and the batched run protocol of   *)
(* the ort wrapper: src/src/run.rs and the older src/src/session/run.rs.   *)
(*                                                                         *)
(* One handle is followed from its constructor call to its destruction,    *)
(* or into a batch of handles (Values) that a run is given.                *)
(* The native engine is a ledger: every OrtValue it hands out is an entry  *)
(* of `values` that counts how often ReleaseValue was called on it.        *)
(***************************************************************************)
EXTENDS Integers, Sequences, FiniteSets, TLC

VARIABLES
    handle,     \* the RustOwnerValue under observation (ptr, owner, _memory_info)
    values,     \* native ledger: values[p] = number of ReleaseValue(p) calls so far
    last,       \* what the last call did: its arguments, its result, its native calls
    vec,        \* the Vec<RustOwnerValue> the caller is collecting handles in
    batch       \* the Values built from it (ptrs, values)

vars == <<handle, values, last, vec, batch>>

\* what belongs to the handle batch
batchVars == <<vec, batch>>

----------------------------------------------------------------------------
(* Bounds of the model. *)

MaxDim == 2         \* dimension sizes are drawn from -1 .. MaxDim
MaxBufLen == 2      \* buffers hold 0 .. MaxBufLen elements (or bytes)
MaxNames == 1       \* names in a name table
MaxOutputs == 2     \* outputs a session declares
MaxRawTag == 60     \* raw type tags are drawn from -MaxRawTag .. MaxRawTag
MaxBatch == 2       \* handles in a batch

----------------------------------------------------------------------------
(* Inputs. *)

Dims == -1 .. MaxDim

\* shape: &[i64], of rank 0, 1 or 2
Shapes == {<<>>} \cup {<<a>> : a \in Dims} \cup {<<a, b>> : a, b \in Dims}

Elems == {1, 2}

\* data: a container dereferencing to [T] (or [u8]) of 0 .. MaxBufLen elements
Buffers == UNION {[1 .. n -> Elems] : n \in 0 .. MaxBufLen}

\* the shapes and buffers the run protocol's handles are built from
RunShapes == {<<>>, <<2>>}

RunBuffers == {<<1, 2>>}

\* T: the element types the typed constructors are instantiated with
RustTypes == {"f32", "u8"}

\* std::mem::size_of::<T>()
SizeOf(T) == CASE T = "f32" -> 4 [] T = "u8" -> 1

\* T::into_tensor_element_type().into()
IntoTensorElementType(T) == CASE T = "f32" -> "FLOAT" [] T = "u8" -> "UINT8"

\* ONNXTensorElementDataType, in the order of its discriminants 0 .. 16
ElementTypes ==
    << "UNDEFINED", "FLOAT", "UINT8", "INT8", "UINT16", "INT16", "INT32",
       "INT64", "STRING", "BOOL", "FLOAT16", "DOUBLE", "UINT32", "UINT64",
       "COMPLEX64", "COMPLEX128", "BFLOAT16" >>

\* `variant as i32`
TagOf(t) == (CHOOSE i \in 1 .. Len(ElementTypes) : ElementTypes[i] = t) - 1

\* the element types and raw tags the raw-bytes constructors are called with
TypeInputs == {"UNDEFINED", "UINT8", "UINT16", "STRING"}

TagInputs == {TagOf(t) : t \in TypeInputs} \cup {-1, Len(ElementTypes)}

\* what the native engine answers to one constructor call
NativeOutcomes == {"ok", "meminfo_err", "create_err", "istensor_err", "not_tensor"}

----------------------------------------------------------------------------
(* Pure functions. *)

RECURSIVE Product(_)
\* shape.iter().fold(1, |a, b| a * b); within the bounds no product leaves i64
Product(shape) ==
    IF shape = <<>> THEN 1 ELSE Head(shape) * Product(Tail(shape))

\* get_type_size: Ok(size), or Err for the string type
get_type_size(type_) ==
    CASE type_ = "UNDEFINED"  -> [ok |-> TRUE, size |-> 0]
      [] type_ = "FLOAT"      -> [ok |-> TRUE, size |-> 4]
      [] type_ = "UINT8"      -> [ok |-> TRUE, size |-> 1]
      [] type_ = "INT8"       -> [ok |-> TRUE, size |-> 1]
      [] type_ = "UINT16"     -> [ok |-> TRUE, size |-> 2]
      [] type_ = "INT16"      -> [ok |-> TRUE, size |-> 2]
      [] type_ = "INT32"      -> [ok |-> TRUE, size |-> 4]
      [] type_ = "INT64"      -> [ok |-> TRUE, size |-> 8]
      [] type_ = "STRING"     -> [ok |-> FALSE, size |-> 0]
      [] type_ = "BOOL"       -> [ok |-> TRUE, size |-> 1]
      [] type_ = "FLOAT16"    -> [ok |-> TRUE, size |-> 2]
      [] type_ = "DOUBLE"     -> [ok |-> TRUE, size |-> 8]
      [] type_ = "UINT32"     -> [ok |-> TRUE, size |-> 4]
      [] type_ = "UINT64"     -> [ok |-> TRUE, size |-> 8]
      [] type_ = "COMPLEX64"  -> [ok |-> TRUE, size |-> 8]
      [] type_ = "COMPLEX128" -> [ok |-> TRUE, size |-> 16]
      [] type_ = "BFLOAT16"   -> [ok |-> TRUE, size |-> 2]

\* `data.len() < len as usize` of the typed constructors. A negative len casts
\* to a usize of at least 2^63, above the length of any slice.
TypedTooShort(dataLen, len) == len < 0 \/ dataLen < len

\* `len as usize == data.len()` of the asserting constructors
LenEqual(len, dataLen) == len >= 0 /\ len = dataLen

\* `fold(..) as usize * size` of with_any_type compared with data.len().
\* A negative product casts to 2^64 - k: times 0 it is 0, times 1 it stays
\* above every slice length, times a larger size the multiplication overflows
\* (a panic under overflow checks, a wrapped value near 2^64 without them).
RawTargetLen(shape, size, overflow_checks) ==
    LET p == Product(shape) IN
    IF p >= 0 THEN [panic |-> FALSE, huge |-> FALSE, len |-> p * size]
    ELSE IF size = 0 THEN [panic |-> FALSE, huge |-> FALSE, len |-> 0]
    ELSE IF size = 1 THEN [panic |-> FALSE, huge |-> TRUE, len |-> 0]
    ELSE [panic |-> overflow_checks, huge |-> TRUE, len |-> 0]

RawTooShort(dataLen, target) == target.huge \/ dataLen < target.len

----------------------------------------------------------------------------
(* State. *)

\* RustOwnerValue { ptr, owner, _memory_info }. shape, byteLen and ty are what
\* the native tensor behind ptr was created with; given is the buffer the
\* constructor was called with.
NoHandle ==
    [st |-> "none", module |-> "", ctor |-> "", ptr |-> 0, owner |-> <<>>,
     given |-> <<>>, owned |-> FALSE, shape |-> <<>>, byteLen |-> 0, ty |-> ""]

\* no Values has been built
NoBatch == [st |-> "none", ptrs |-> <<>>, values |-> <<>>]

Init ==
    /\ handle = NoHandle
    /\ values = <<>>
    /\ last = [op |-> "init"]
    /\ vec = <<>>
    /\ batch = NoBatch

----------------------------------------------------------------------------
(* Constructors. *)

\* dropping the container passed by value frees the buffer only when the
\* container owns it (Vec<T>, Box<[T]>), not when it borrows it (&[T])
DropContainer(owned) == IF owned THEN <<"buffer">> ELSE <<>>

\* a constructor that returns (or panics) before it reaches the engine
Reject(module, ctor, shape, data, ty, owned, outcome, err) ==
    /\ handle' = handle
    /\ values' = values
    /\ last' = [op |-> ctor, module |-> module, outcome |-> outcome, err |-> err,
                shape |-> shape, data |-> data, ty |-> ty, nat |-> "unused",
                createCalled |-> FALSE, created |-> 0,
                events |-> DropContainer(owned)]
    /\ UNCHANGED batchVars

\* the part every constructor shares: MemoryInfo::new_cpu, the native
\* CreateTensorWithDataAsOrtValue, IsTensor, assert_eq!(is_tensor, 1), Ok(Self).
\* value_ptr is a raw pointer until Ok(Self { .. }) wraps it: an early return
\* or a panic after the create call drops memory_info and data, not the value.
Bind(module, ctor, shape, data, byteLen, ty, owned, nat) ==
    LET made == nat \in {"ok", "istensor_err", "not_tensor"}
        p == Len(values) + 1
        outcome == CASE nat = "ok" -> "ok"
                     [] nat = "not_tensor" -> "panic"
                     [] OTHER -> "err"
        err == CASE nat = "meminfo_err" -> "CreateCpuMemoryInfo"
                 [] nat = "create_err" -> "CreateTensorWithData"
                 [] nat = "istensor_err" -> "FailedTensorCheck"
                 [] nat = "not_tensor" -> "assert_eq"
                 [] OTHER -> ""
        events == IF nat = "ok" THEN <<>>
                  ELSE IF nat = "meminfo_err" THEN DropContainer(owned)
                  ELSE <<"meminfo">> \o DropContainer(owned)
    IN
    /\ values' = IF made THEN Append(values, 0) ELSE values
    /\ handle' = IF nat = "ok"
                  THEN [st |-> "live", module |-> module, ctor |-> ctor, ptr |-> p,
                        owner |-> data, given |-> data, owned |-> owned,
                        shape |-> shape, byteLen |-> byteLen, ty |-> ty]
                  ELSE handle
    /\ last' = [op |-> ctor, module |-> module, outcome |-> outcome, err |-> err,
                shape |-> shape, data |-> data, ty |-> ty, nat |-> nat,
                createCalled |-> (nat # "meminfo_err"),
                created |-> IF made THEN p ELSE 0,
                events |-> events]
    /\ UNCHANGED batchVars

\* a behaviour starts with the one constructor call it follows; the caller who
\* collects handles for a batch calls again once the last handle is in the Vec
CanConstruct == last.op \in {"init", "push", "values_from"} /\ handle.st = "none"

\* run.rs RustOwnerValue::new
New(shapes, buffers) ==
    /\ CanConstruct
    /\ \E shape \in shapes, data \in buffers, T \in RustTypes,
          owned \in BOOLEAN, nat \in NativeOutcomes :
          LET len == Product(shape)
              ty == IntoTensorElementType(T)
          IN IF TypedTooShort(Len(data), len)
             THEN Reject("run", "new", shape, data, ty, owned, "err", "Msg")
             ELSE Bind("run", "new", shape, data, Len(data) * SizeOf(T), ty,
                       owned, nat)

\* run.rs RustOwnerValue::new_mut
NewMut(shapes, buffers) ==
    /\ CanConstruct
    /\ \E shape \in shapes, data \in buffers, T \in RustTypes,
          owned \in BOOLEAN, nat \in NativeOutcomes :
          LET len == Product(shape)
              ty == IntoTensorElementType(T)
          IN IF TypedTooShort(Len(data), len)
             THEN Reject("run", "new_mut", shape, data, ty, owned, "err", "Msg")
             ELSE Bind("run", "new_mut", shape, data, Len(data) * SizeOf(T), ty,
                       owned, nat)

\* the body run.rs with_any_type and with_any_type_mut share
RawBind(ctor, shape, data, type_, overflow_checks, nat) ==
    LET size == get_type_size(type_) IN
    IF ~size.ok
    THEN Reject("run", ctor, shape, data, type_, FALSE, "panic", "unwrap")
    ELSE LET target == RawTargetLen(shape, size.size, overflow_checks) IN
         IF target.panic
         THEN Reject("run", ctor, shape, data, type_, FALSE, "panic", "overflow")
         ELSE IF RawTooShort(Len(data), target)
         THEN Reject("run", ctor, shape, data, type_, FALSE, "err", "Msg")
         ELSE Bind("run", ctor, shape, data, Len(data), type_, FALSE, nat)

\* run.rs RustOwnerValue::with_any_type
WithAnyType(shapes, buffers) ==
    /\ CanConstruct
    /\ \E shape \in shapes, data \in buffers, type_ \in TypeInputs,
          overflow_checks \in BOOLEAN, nat \in NativeOutcomes :
          RawBind("with_any_type", shape, data, type_, overflow_checks, nat)

\* run.rs RustOwnerValue::with_any_type_mut
WithAnyTypeMut(shapes, buffers) ==
    /\ CanConstruct
    /\ \E shape \in shapes, data \in buffers, type_ \in TypeInputs,
          overflow_checks \in BOOLEAN, nat \in NativeOutcomes :
          RawBind("with_any_type_mut", shape, data, type_, overflow_checks, nat)

\* session/run.rs RustOwnerValue::new
SessionNew(shapes, buffers) ==
    /\ CanConstruct
    /\ \E shape \in shapes, data \in buffers, T \in RustTypes,
          owned \in BOOLEAN, nat \in NativeOutcomes :
          LET len == Product(shape)
              ty == IntoTensorElementType(T)
          IN IF ~LenEqual(len, Len(data))
             THEN Reject("session", "new", shape, data, ty, owned, "panic",
                         "assert_eq")
             ELSE Bind("session", "new", shape, data, Len(data) * SizeOf(T), ty,
                       owned, nat)

\* session/run.rs RustOwnerValue::new_mut
SessionNewMut(shapes, buffers) ==
    /\ CanConstruct
    /\ \E shape \in shapes, data \in buffers, T \in RustTypes,
          owned \in BOOLEAN, nat \in NativeOutcomes :
          LET len == Product(shape)
              ty == IntoTensorElementType(T)
          IN IF ~LenEqual(len, Len(data))
             THEN Reject("session", "new_mut", shape, data, ty, owned, "panic",
                         "assert_eq")
             ELSE Bind("session", "new_mut", shape, data, Len(data) * SizeOf(T), ty,
                       owned, nat)

\* std::mem::transmute(type_) of a tag the range assertion let through
Transmute(tag) == ElementTypes[tag + 1]

\* the body session/run.rs with_any_type and with_any_type_mut share; a tag the
\* range assertion refuses is recorded as the type "tag out of range"
SessionRawBind(ctor, shape, data, tag, nat) ==
    IF ~(tag >= TagOf("UNDEFINED") /\ tag <= TagOf("BFLOAT16"))
    THEN Reject("session", ctor, shape, data, "OUT_OF_RANGE", FALSE, "panic", "assert")
    ELSE IF ~LenEqual(Product(shape), Len(data))
    THEN Reject("session", ctor, shape, data, Transmute(tag), FALSE, "panic", "assert_eq")
    ELSE Bind("session", ctor, shape, data, Len(data), Transmute(tag), FALSE, nat)

\* session/run.rs RustOwnerValue::with_any_type
SessionWithAnyType(shapes, buffers) ==
    /\ CanConstruct
    /\ \E shape \in shapes, data \in buffers, tag \in TagInputs,
          nat \in NativeOutcomes :
          SessionRawBind("with_any_type", shape, data, tag, nat)

\* session/run.rs RustOwnerValue::with_any_type_mut
SessionWithAnyTypeMut(shapes, buffers) ==
    /\ CanConstruct
    /\ \E shape \in shapes, data \in buffers, tag \in TagInputs,
          nat \in NativeOutcomes :
          SessionRawBind("with_any_type_mut", shape, data, tag, nat)

----------------------------------------------------------------------------
(* The life of a handle. *)

\* a view that starts one element late (&self.owner[1..])
as_slice_shifted(h) == IF h.owner = <<>> THEN <<>> ELSE Tail(h.owner)

\* RustOwnerValue::as_slice: &*self.owner
as_slice(h) == h.owner

AsSlice ==
    /\ handle.st = "live"
    /\ last' = [op |-> "as_slice", view |-> as_slice(handle)]
    /\ UNCHANGED <<handle, values, vec, batch>>

\* a drop that lets the fields go before it releases the native value
DropEventsFieldsFirst(h) ==
    DropContainer(h.owned) \o <<"meminfo">>
        \o (IF h.module = "run" THEN <<"value">> ELSE <<>>)

\* what the implicit drop of a handle releases, in order. run.rs: Drop::drop
\* calls ReleaseValue(self.ptr), then the fields go in declaration order: ptr,
\* owner, _memory_info. session/run.rs declares no Drop for RustOwnerValue:
\* only the fields go.
DropEvents(h) ==
    (IF h.module = "run" THEN <<"value">> ELSE <<>>)
        \o DropContainer(h.owned) \o <<"meminfo">>

\* a handle that has been dropped or consumed: nothing of it is left but the
\* OrtValue it stood for
Gone(h, st) == [NoHandle EXCEPT !.st = st, !.module = h.module, !.ptr = h.ptr]

\* the handle goes out of scope
Drop ==
    /\ handle.st = "live"
    /\ handle' = Gone(handle, "dropped")
    /\ values' = [values EXCEPT ![handle.ptr] =
                     @ + Len(SelectSeq(DropEvents(handle), LAMBDA e : e = "value"))]
    /\ last' = [op |-> "drop", outcome |-> "ok", owned |-> handle.owned,
                module |-> handle.module, events |-> DropEvents(handle)]
    /\ UNCHANGED batchVars

\* what into_container releases, in order. std::mem::zeroed::<Container>() is
\* undefined for every container the type allows (a reference, Vec, Box, Arc
\* are never all-zero): the build either goes on with the zeroed value, which
\* mem::forget then hides, or panics at line 35, after ReleaseValue has run and
\* before mem::forget, so that unwinding drops self and releases ptr again.
IntoContainerEvents(h, zeroed_panics) ==
    IF zeroed_panics
    THEN <<"value", "meminfo", "value">> \o DropContainer(h.owned)
             \o <<"meminfo_zeroed">>
    ELSE <<"value", "meminfo">>

\* RustOwnerValue::into_container (run.rs only)
IntoContainer ==
    /\ handle.st = "live"
    /\ handle.module = "run"
    /\ \E zeroed_panics \in BOOLEAN :
       /\ handle' = Gone(handle, IF zeroed_panics THEN "dropped" ELSE "taken")
       /\ values' = [values EXCEPT ![handle.ptr] =
                        @ + Len(SelectSeq(IntoContainerEvents(handle, zeroed_panics),
                                          LAMBDA e : e = "value"))]
       /\ last' = [op |-> "into_container",
                   outcome |-> IF zeroed_panics THEN "panic" ELSE "ok",
                   owned |-> handle.owned, module |-> handle.module,
                   returned |-> IF zeroed_panics THEN <<>> ELSE handle.owner,
                   events |-> IntoContainerEvents(handle, zeroed_panics)]
    /\ UNCHANGED batchVars

----------------------------------------------------------------------------
(* The run protocol. *)

\* names as byte strings: "x", and "a\0b" with an embedded NUL
NameInputs == {<<120>>, <<97, 0, 98>>}

\* input_names: &[&str]
NameLists == UNION {[1 .. n -> NameInputs] : n \in 0 .. MaxNames}

\* CString::new(name): Err when the bytes hold a NUL
CStringNewOk(name) == \A i \in 1 .. Len(name) : name[i] # 0

\* the container can hand out &mut [T]: Vec<T>, Box<[T]>, &mut [T]
Mutable(h) == h.owned \/ h.ctor \in {"new_mut", "with_any_type_mut"}

\* the slices a call is given: the handle as the one input, as the one output,
\* or not at all
Roles == {"none", "input", "output"}

RoleOk(role, module) ==
    role # "none" =>
        /\ handle.st = "live"
        /\ handle.module = module
        /\ role = "output" => Mutable(handle)

Inputs(role) == IF role = "input" THEN <<handle>> ELSE <<>>

Outputs(role) == IF role = "output" THEN <<handle>> ELSE <<>>

\* the buffer elements the native tensor of h spans
Spanned(h) ==
    LET p == Product(h.shape)
        n == IF h.ctor \in {"new", "new_mut"} THEN p
             ELSE IF get_type_size(h.ty).ok THEN p * get_type_size(h.ty).size
             ELSE 0
    IN IF n < 0 THEN 0 ELSE IF n > Len(h.owner) THEN Len(h.owner) ELSE n

\* what the engine may leave in the buffer of an output tensor
Writes(h) ==
    {w \in [1 .. Len(h.owner) -> Elems] :
        \A i \in 1 .. Len(h.owner) : i > Spanned(h) => w[i] = h.owner[i]}

\* the roles the handle can take in a call of the given module, and what the
\* engine may write for each
RolesOf(module) == {role \in Roles : RoleOk(role, module)}

WritesOf(role) == IF role = "output" THEN Writes(handle) ELSE {<<>>}

\* the engine reads in_count entries of the input name and value arrays and
\* out_count entries of the output name and value arrays
OutOfBounds(call) ==
    \/ call.inCount > call.inNamesLen
    \/ call.inCount > call.inPtrsLen
    \/ call.outCount > call.outNamesLen
    \/ call.outCount > call.outPtrsLen

\* what the native Run may answer; a read past an array is undefined
RunResults(call) ==
    {"ok", "err"} \cup (IF OutOfBounds(call) THEN {"crash"} ELSE {})

\* the native Run's effect on the handle: it writes the output tensors
Engine(role, call, res, w) ==
    handle' = IF role = "output" /\ call.outCount >= 1 /\ res # "crash"
              THEN [handle EXCEPT !.owner = w]
              ELSE handle

\* an invocation that drops the status the native Run returned
RunOutcomeSwallowed(res) ==
    CASE res = "ok" -> "ok" [] res = "err" -> "ok" [] OTHER -> "crash"

\* what the invocation returns: ortsys![.. -> Error::SessionRun] returns the
\* error of a non-null status from the function at once, and Ok(()) follows
RunOutcome(res) ==
    CASE res = "ok" -> "ok" [] res = "err" -> "err" [] OTHER -> "crash"

\* the arguments run_with_io_ref hands to the native Run
RunWithIoRefCall(nInNames, inputs, nOutNames, outputs) ==
    [inNamesLen |-> nInNames, inPtrsLen |-> Len(inputs), inCount |-> Len(inputs),
     outNamesLen |-> nOutNames, outPtrsLen |-> Len(outputs), outCount |-> nOutNames]

\* Session::run_with_io_ref
RunWithIoRef ==
    \E nInNames \in 0 .. MaxNames, nOutNames \in 0 .. MaxNames,
       role \in RolesOf("run"), res \in {"ok", "err", "crash"} :
    \E w \in WritesOf(role) :
    /\ RoleOk(role, "run")
    /\ LET call == RunWithIoRefCall(nInNames, Inputs(role), nOutNames, Outputs(role)) IN
       /\ res \in RunResults(call)
       /\ Engine(role, call, res, w)
       /\ last' = [op |-> "run_with_io_ref", outcome |-> RunOutcome(res),
                   native |-> res,
                   err |-> IF res = "err" THEN "SessionRun" ELSE "",
                   runCalls |-> 1, call |-> call,
                   nInputs |-> Len(Inputs(role)), nOutputs |-> Len(Outputs(role)),
                   allocated |-> 0, freed |-> 0]
    /\ UNCHANGED <<values, vec, batch>>

\* a derivation that pushes the pointers in the opposite order
ValuesFromReversed(values_) ==
    [ptrs |-> [i \in 1 .. Len(values_) |-> values_[Len(values_) + 1 - i].ptr],
     values |-> values_]

\* From<Vec<RustOwnerValue>> for Values
ValuesFrom(values_) ==
    [ptrs |-> [i \in 1 .. Len(values_) |-> values_[i].ptr], values |-> values_]

\* the arguments run_with_values hands to the native Run
RunWithValuesCall(nInNames, inputs, nOutNames, outputs) ==
    [inNamesLen |-> nInNames, inPtrsLen |-> Len(inputs.ptrs),
     inCount |-> Len(inputs.ptrs),
     outNamesLen |-> nOutNames, outPtrsLen |-> Len(outputs.ptrs),
     outCount |-> nOutNames]

\* Session::run_with_values, on batches built from the slices
RunWithValues ==
    \E nInNames \in 0 .. MaxNames, nOutNames \in 0 .. MaxNames,
       role \in RolesOf("run"), res \in {"ok", "err", "crash"} :
    \E w \in WritesOf(role) :
    /\ RoleOk(role, "run")
    /\ LET call == RunWithValuesCall(nInNames, ValuesFrom(Inputs(role)),
                                     nOutNames, ValuesFrom(Outputs(role))) IN
       /\ res \in RunResults(call)
       /\ Engine(role, call, res, w)
       /\ last' = [op |-> "run_with_values", outcome |-> RunOutcome(res),
                   native |-> res,
                   err |-> IF res = "err" THEN "SessionRun" ELSE "",
                   runCalls |-> 1, call |-> call,
                   nInputs |-> Len(Inputs(role)), nOutputs |-> Len(Outputs(role)),
                   allocated |-> 0, freed |-> 0]
    /\ UNCHANGED <<values, vec, batch>>

\* the names before the first one CString::new refuses (all, when none is):
\* the iterator has turned them into raw pointers by then
ConvertedBefore(names) ==
    IF \A i \in 1 .. Len(names) : CStringNewOk(names[i]) THEN Len(names)
    ELSE (CHOOSE i \in 1 .. Len(names) :
              /\ ~CStringNewOk(names[i])
              /\ \A j \in 1 .. i - 1 : CStringNewOk(names[j])) - 1

\* the arguments run_io hands to the native Run
RunIoCall(input_names, inputs, session_outputs, outputs) ==
    [inNamesLen |-> Len(input_names), inPtrsLen |-> Len(inputs),
     inCount |-> Len(inputs),
     outNamesLen |-> session_outputs, outPtrsLen |-> Len(outputs),
     outCount |-> session_outputs]

\* Session::run_io (session/run.rs), on a session declaring session_outputs
\* outputs
RunIo ==
    \E input_names \in NameLists, session_outputs \in 0 .. MaxOutputs,
       role \in RolesOf("session"), res \in {"ok", "err", "crash"} :
    \E w \in WritesOf(role) :
    /\ RoleOk(role, "session")
    /\ LET inputs == Inputs(role)
           outputs == Outputs(role)
           call == RunIoCall(input_names, inputs, session_outputs, outputs)
           refused == [op |-> "run_io", outcome |-> "panic", err |-> "assert_eq",
                       native |-> "unused",
                       runCalls |-> 0, call |-> call,
                       nInputs |-> Len(inputs), nOutputs |-> Len(outputs),
                       allocated |-> 0, freed |-> 0]
       IN
       IF Len(outputs) # session_outputs
       THEN /\ last' = refused
            /\ handle' = handle
       ELSE IF ConvertedBefore(input_names) < Len(input_names)
       THEN /\ last' = [refused EXCEPT !.err = "unwrap",
                                       !.allocated = ConvertedBefore(input_names)]
            /\ handle' = handle
       ELSE /\ res \in RunResults(call)
            /\ Engine(role, call, res, w)
            /\ last' = [op |-> "run_io", outcome |-> RunOutcome(res),
                        native |-> res,
                        err |-> IF res = "err" THEN "SessionRun" ELSE "",
                        runCalls |-> 1, call |-> call,
                        nInputs |-> Len(inputs), nOutputs |-> Len(outputs),
                        allocated |-> Len(input_names) + session_outputs,
                        freed |-> IF res = "ok"
                                  THEN Len(input_names) + session_outputs ELSE 0]
    /\ UNCHANGED <<values, vec, batch>>

----------------------------------------------------------------------------
(* Handle batches. *)

\* the shape and the buffer the handles of a batch are built on
BatchShapes == {<<1>>}

BatchBuffers == {<<1>>}

\* RustOwnerValue<Container>: the handles of one Vec share the container type
SameContainer(h1, h2) ==
    /\ h1.owned = h2.owned
    /\ h1.ty = h2.ty
    /\ Mutable(h1) = Mutable(h2)

\* the caller moves the handle into the Vec that Values::from will be given
Push ==
    /\ handle.st = "live"
    /\ handle.module = "run"
    /\ batch.st = "none"
    /\ Len(vec) < MaxBatch
    /\ \A i \in 1 .. Len(vec) : SameContainer(vec[i], handle)
    /\ vec' = Append(vec, handle)
    /\ handle' = NoHandle
    /\ last' = [op |-> "push"]
    /\ UNCHANGED <<values, batch>>

\* Values::new(values_) = Values::from(values_)
ValuesNew ==
    /\ batch.st = "none"
    /\ handle.st = "none"
    /\ batch' = [st |-> "built"] @@ ValuesFrom(vec)
    /\ vec' = <<>>
    /\ last' = [op |-> "values_from", given |-> vec]
    /\ UNCHANGED <<handle, values>>

\* values[index] = handle, through IndexMut::index_mut or as_mut_slice: both
\* hand out &mut self.values[index] and leave self.ptrs as it was derived. The
\* assignment drops the handle that was there, which releases its OrtValue.
IndexMutAssign ==
    /\ batch.st = "built"
    /\ handle.st = "live"
    /\ handle.module = "run"
    /\ \E index \in 1 .. Len(batch.values), via \in {"index_mut", "as_mut_slice"} :
       LET old == batch.values[index] IN
       /\ Mutable(old)
       /\ SameContainer(old, handle)
       /\ batch' = [batch EXCEPT !.values[index] = handle]
       /\ values' = [values EXCEPT ![old.ptr] =
                        @ + Len(SelectSeq(DropEvents(old), LAMBDA e : e = "value"))]
       /\ handle' = NoHandle
       /\ last' = [op |-> via, index |-> index, events |-> DropEvents(old)]
    /\ UNCHANGED vec

\* the batch can be the inputs of a run, or the outputs when its containers
\* are DerefMut
BatchRoles ==
    {"inputs"} \cup
        (IF \A i \in 1 .. Len(batch.values) : Mutable(batch.values[i])
         THEN {"outputs"} ELSE {})

\* the engine follows the first count pointers of the array it is given
PointersRead(ptrs, count) ==
    {ptrs[i] : i \in 1 .. (IF count < Len(ptrs) THEN count ELSE Len(ptrs))}

\* what the engine may leave in the buffers of the batch: it writes the
\* tensors whose pointers it read
BatchWrites(read) ==
    {ws \in [1 .. Len(batch.values) -> UNION {Writes(batch.values[j]) :
                                              j \in 1 .. Len(batch.values)}] :
        \A j \in 1 .. Len(batch.values) :
            IF batch.values[j].ptr \in read
            THEN ws[j] \in Writes(batch.values[j])
            ELSE ws[j] = batch.values[j].owner}

\* the name tables a batch is run with: one name for each handle, or no name
BatchNames == {0, Len(batch.values)}

\* Session::run_with_values on the batch: the native Run is given self.ptrs,
\* as derived when the batch was built. A pointer to a released OrtValue makes
\* the call undefined.
RunWithValuesBatch ==
    /\ batch.st = "built"
    /\ \E role \in BatchRoles, nInNames \in BatchNames, nOutNames \in BatchNames,
          res \in {"ok", "err", "crash"} :
       LET inputs == IF role = "inputs" THEN batch ELSE ValuesFrom(<<>>)
           outputs == IF role = "outputs" THEN batch ELSE ValuesFrom(<<>>)
           call == RunWithValuesCall(nInNames, inputs, nOutNames, outputs)
           released == \E i \in 1 .. Len(batch.ptrs) : values[batch.ptrs[i]] > 0
           read == IF role = "outputs" /\ res # "crash"
                   THEN PointersRead(batch.ptrs, call.outCount) ELSE {}
       IN
       /\ res \in RunResults(call) \cup (IF released THEN {"crash"} ELSE {})
       /\ \E ws \in BatchWrites(read) :
             batch' = [batch EXCEPT !.values =
                          [j \in 1 .. Len(batch.values) |->
                              [batch.values[j] EXCEPT !.owner = ws[j]]]]
       /\ last' = [op |-> "run_with_values", outcome |-> RunOutcome(res),
                   native |-> res,
                   err |-> IF res = "err" THEN "SessionRun" ELSE "",
                   runCalls |-> 1, call |-> call,
                   nInputs |-> Len(inputs.values), nOutputs |-> Len(outputs.values),
                   allocated |-> 0, freed |-> 0, passed |-> batch.ptrs]
    /\ UNCHANGED <<handle, values, vec>>

----------------------------------------------------------------------------
(* Element type tags. *)

\* the raw tags the conversion is given: every i32 near the enumeration, and
\* the two ends of i32
RawTags == (-MaxRawTag .. MaxRawTag) \cup {-2147483647 - 1, 2147483647}

\* a conversion whose match lacks the arm of the last variant
convert_without_bfloat16(i) ==
    CASE i = TagOf("UNDEFINED") -> [ok |-> TRUE, t |-> "UNDEFINED"]
      [] i = TagOf("FLOAT") -> [ok |-> TRUE, t |-> "FLOAT"]
      [] i = TagOf("UINT8") -> [ok |-> TRUE, t |-> "UINT8"]
      [] i = TagOf("INT8") -> [ok |-> TRUE, t |-> "INT8"]
      [] i = TagOf("UINT16") -> [ok |-> TRUE, t |-> "UINT16"]
      [] i = TagOf("INT16") -> [ok |-> TRUE, t |-> "INT16"]
      [] i = TagOf("INT32") -> [ok |-> TRUE, t |-> "INT32"]
      [] i = TagOf("INT64") -> [ok |-> TRUE, t |-> "INT64"]
      [] i = TagOf("STRING") -> [ok |-> TRUE, t |-> "STRING"]
      [] i = TagOf("BOOL") -> [ok |-> TRUE, t |-> "BOOL"]
      [] i = TagOf("FLOAT16") -> [ok |-> TRUE, t |-> "FLOAT16"]
      [] i = TagOf("DOUBLE") -> [ok |-> TRUE, t |-> "DOUBLE"]
      [] i = TagOf("UINT32") -> [ok |-> TRUE, t |-> "UINT32"]
      [] i = TagOf("UINT64") -> [ok |-> TRUE, t |-> "UINT64"]
      [] i = TagOf("COMPLEX64") -> [ok |-> TRUE, t |-> "COMPLEX64"]
      [] i = TagOf("COMPLEX128") -> [ok |-> TRUE, t |-> "COMPLEX128"]
      [] OTHER -> [ok |-> FALSE, t |-> "unknown type"]

\* convert_to_onnx_el_type: a match of i against `variant as i32` of each of the
\* 17 variants, Ok(variant) on the arm that matches, Err(String) on none
convert_to_onnx_el_type(i) ==
    CASE i = TagOf("UNDEFINED") -> [ok |-> TRUE, t |-> "UNDEFINED"]
      [] i = TagOf("FLOAT") -> [ok |-> TRUE, t |-> "FLOAT"]
      [] i = TagOf("UINT8") -> [ok |-> TRUE, t |-> "UINT8"]
      [] i = TagOf("INT8") -> [ok |-> TRUE, t |-> "INT8"]
      [] i = TagOf("UINT16") -> [ok |-> TRUE, t |-> "UINT16"]
      [] i = TagOf("INT16") -> [ok |-> TRUE, t |-> "INT16"]
      [] i = TagOf("INT32") -> [ok |-> TRUE, t |-> "INT32"]
      [] i = TagOf("INT64") -> [ok |-> TRUE, t |-> "INT64"]
      [] i = TagOf("STRING") -> [ok |-> TRUE, t |-> "STRING"]
      [] i = TagOf("BOOL") -> [ok |-> TRUE, t |-> "BOOL"]
      [] i = TagOf("FLOAT16") -> [ok |-> TRUE, t |-> "FLOAT16"]
      [] i = TagOf("DOUBLE") -> [ok |-> TRUE, t |-> "DOUBLE"]
      [] i = TagOf("UINT32") -> [ok |-> TRUE, t |-> "UINT32"]
      [] i = TagOf("UINT64") -> [ok |-> TRUE, t |-> "UINT64"]
      [] i = TagOf("COMPLEX64") -> [ok |-> TRUE, t |-> "COMPLEX64"]
      [] i = TagOf("COMPLEX128") -> [ok |-> TRUE, t |-> "COMPLEX128"]
      [] i = TagOf("BFLOAT16") -> [ok |-> TRUE, t |-> "BFLOAT16"]
      [] OTHER -> [ok |-> FALSE, t |-> "unknown type"]

ConvertToOnnxElType ==
    /\ \E i \in RawTags :
          last' = [op |-> "convert_to_onnx_el_type", i |-> i,
                   outcome |-> IF convert_to_onnx_el_type(i).ok THEN "ok" ELSE "err",
                   result |-> convert_to_onnx_el_type(i)]
    /\ UNCHANGED <<handle, values, vec, batch>>

----------------------------------------------------------------------------
(* Name tables. *)

\* CString::new(name).unwrap() on a name without NUL: the bytes and the
\* terminator
CStringNew(name) == Append(name, 0)

\* From<Vec<T>>, From<&[T]>, From<[T; N]> for Names<Vec<CString>>: each name goes
\* through CString::new(..).unwrap(), which panics on the first name holding a
\* NUL; otherwise ptrs[i] points at names[i]
NamesFrom ==
    /\ \E value \in NameLists :
          last' = IF ConvertedBefore(value) < Len(value)
                  THEN [op |-> "names_from", value |-> value,
                        outcome |-> "panic", err |-> "unwrap",
                        ptrs |-> <<>>, names |-> <<>>]
                  ELSE [op |-> "names_from", value |-> value,
                        outcome |-> "ok", err |-> "",
                        ptrs |-> [i \in 1 .. Len(value) |-> i],
                        names |-> [i \in 1 .. Len(value) |-> CStringNew(value[i])]]
    /\ UNCHANGED <<handle, values, vec, batch>>

----------------------------------------------------------------------------
(* Specifications. *)

\* one constructor call on any shape, buffer and type of the bounds, then the
\* life of the handle it returned
Next ==
    \/ New(Shapes, Buffers)
    \/ NewMut(Shapes, Buffers)
    \/ WithAnyType(Shapes, Buffers)
    \/ WithAnyTypeMut(Shapes, Buffers)
    \/ SessionNew(Shapes, Buffers)
    \/ SessionNewMut(Shapes, Buffers)
    \/ SessionWithAnyType(Shapes, Buffers)
    \/ SessionWithAnyTypeMut(Shapes, Buffers)
    \/ AsSlice
    \/ Drop
    \/ IntoContainer

Spec == Init /\ [][Next]_vars

\* one constructor call on the few shapes and buffers the run protocol is
\* shown on, then runs on the handle it returned
NextRun ==
    \/ New(RunShapes, RunBuffers)
    \/ NewMut(RunShapes, RunBuffers)
    \/ SessionNewMut(RunShapes, RunBuffers)
    \/ RunWithIoRef
    \/ RunWithValues
    \/ RunIo
    \/ AsSlice
    \/ Drop
    \/ IntoContainer

SpecRun == Init /\ [][NextRun]_vars

\* the pure conversions, each applied to every input of the bounds
NextPure ==
    \/ ConvertToOnnxElType
    \/ NamesFrom

SpecPure == Init /\ [][NextPure]_vars

\* handles built one after the other are collected into a batch, a handle of
\* the batch is replaced, and the batch is run
NextBatch ==
    \/ NewMut(BatchShapes, BatchBuffers)
    \/ Push
    \/ ValuesNew
    \/ IndexMutAssign
    \/ RunWithValuesBatch

SpecBatch == Init /\ [][NextBatch]_vars

----------------------------------------------------------------------------
(* Properties. *)

TypedCtors == {"new", "new_mut"}

RawCtors == {"with_any_type", "with_any_type_mut"}

RunOps == {"run_io", "run_with_io_ref", "run_with_values"}

\* the first place of event e in a release log, 0 when it is absent
Pos(events, e) ==
    IF \E i \in 1 .. Len(events) : events[i] = e
    THEN CHOOSE i \in 1 .. Len(events) :
             events[i] = e /\ \A j \in 1 .. i - 1 : events[j] # e
    ELSE 0

\* every e1 of the log comes before every e2 (true when either is absent)
AllBefore(events, e1, e2) ==
    \A i, j \in 1 .. Len(events) : events[i] = e1 /\ events[j] = e2 => i < j

\* C1: a typed constructor called with product(shape) # buffer length returns
\* a shape-mismatch error value and has not called the native create.
C1_MismatchIsAnErrorValue ==
    (last.op \in TypedCtors /\ Product(last.shape) # Len(last.data))
        => (last.outcome = "err" /\ last.err = "Msg" /\ ~last.createCalled)

\* C2: a live handle's buffer holds at least product(shape) * width bytes of
\* the element type its native tensor was declared with.
C2_BufferCoversShape ==
    (handle.st = "live" /\ get_type_size(handle.ty).ok)
        => handle.byteLen >= Product(handle.shape) * get_type_size(handle.ty).size

\* C3: once a handle is dropped or consumed, its native tensor reference has
\* been released exactly once.
C3_ReleasedExactlyOnce ==
    handle.st \in {"dropped", "taken"} => values[handle.ptr] = 1

\* C4: the raw-bytes constructors called with the string element type return
\* an error value, without a panic and without a native create call.
C4_StringIsAnErrorValue ==
    (last.op \in RawCtors /\ last.ty = "STRING")
        => (last.outcome = "err" /\ ~last.createCalled)

\* C5: for a fixed-width element type the raw-bytes constructors create a
\* native tensor only when the byte length equals product(shape) * width, and
\* pass validation when it does.
C5_RawLengthExact ==
    (last.op \in RawCtors /\ last.ty \in TypeInputs /\ get_type_size(last.ty).ok
        /\ get_type_size(last.ty).size >= 1)
        => LET need == Product(last.shape) * get_type_size(last.ty).size IN
           /\ Len(last.data) # need => (last.outcome # "ok" /\ ~last.createCalled)
           /\ Len(last.data) = need => last.nat # "unused"

\* C6: new on product(shape) = buffer length passes validation and, when the
\* native calls succeed, returns a handle whose as_slice is the buffer given,
\* element for element.
C6_NewThenView ==
    /\ (last.op = "new" /\ Product(last.shape) = Len(last.data))
           => /\ last.nat # "unused"
              /\ last.nat = "ok" =>
                     /\ last.outcome = "ok"
                     /\ handle.st = "live"
                     /\ as_slice(handle) = last.data
    /\ (last.op = "as_slice" /\ handle.ctor = "new"
            /\ Product(handle.shape) = Len(handle.given))
           => last.view = handle.given

\* C6 witness: the view of a handle built by run.rs new on shape [1, 2] and the
\* buffer [2, 1]
C6_Witness ==
    /\ last.op = "as_slice"
    /\ handle.module = "run"
    /\ handle.ctor = "new"
    /\ handle.shape = <<1, 2>>
    /\ handle.given = <<2, 1>>

\* C7: run_io given a number of output handles other than the session's
\* declared output count returns an error value and has not called the native
\* run.
C7_OutputCountIsAnErrorValue ==
    (last.op = "run_io" /\ last.nOutputs # last.call.outNamesLen)
        => (last.outcome = "err" /\ last.runCalls = 0)

\* C8: the native run is called only with as many input names as input handles
\* and as many output names as output handles, and with counts no larger than
\* the arrays beside them.
C8_RunCountsMatch ==
    (last.op \in RunOps /\ last.runCalls = 1)
        => /\ last.call.inNamesLen = last.nInputs
           /\ last.call.outNamesLen = last.nOutputs
           /\ ~OutOfBounds(last.call)

\* C9: a constructor whose post-check fails after the native create succeeded
\* has released the created value when it returns, and returns an error value.
C9_PostCheckReleases ==
    ((last.op \in TypedCtors \cup RawCtors) /\ last.nat \in {"istensor_err", "not_tensor"})
        => (last.outcome = "err" /\ values[last.created] = 1)

\* C10 as claimed: destroying a run.rs handle that owns its buffer releases the
\* native value first, the memory-info descriptor before the buffer, and never
\* the native value after the buffer.
C10_MemInfoBeforeBuffer ==
    (last.op \in {"drop", "into_container"} /\ last.module = "run" /\ last.owned)
        => /\ last.events[1] = "value"
           /\ AllBefore(last.events, "value", "buffer")
           /\ AllBefore(last.events, "meminfo", "buffer")

\* C10 as amended: destroying a run.rs handle that owns its buffer releases the
\* native value first and never after the buffer; into_container releases the
\* memory-info descriptor before the buffer, the implicit drop frees the buffer
\* before the memory-info descriptor.
C10_ValueReleasedFirst ==
    (last.op \in {"drop", "into_container"} /\ last.module = "run" /\ last.owned)
        => /\ last.events[1] = "value"
           /\ AllBefore(last.events, "value", "buffer")
           /\ last.op = "into_container" => AllBefore(last.events, "meminfo", "buffer")
           /\ last.op = "drop" =>
                  /\ Pos(last.events, "buffer") > 0
                  /\ Pos(last.events, "buffer") < Pos(last.events, "meminfo")

\* C10 witness: a run.rs handle owning its buffer has been dropped
C10_Witness ==
    /\ last.op = "drop"
    /\ last.module = "run"
    /\ last.owned
    /\ handle.st = "dropped"
    /\ values[handle.ptr] = 1

\* C11: into_container on a handle that was the output of a successful run
\* returns the buffer with the contents the run left in it, releases the native
\* reference once, at that point, and consumes the handle.
C11_IntoContainerAfterRun ==
    [][(/\ last.op \in RunOps
        /\ last.outcome = "ok"
        /\ last.nOutputs = 1
        /\ last.call.outCount >= 1
        /\ last'.op = "into_container")
         => /\ last'.outcome = "ok"
            /\ last'.returned = handle.owner
            /\ values'[handle.ptr] = values[handle.ptr] + 1
            /\ handle'.st = "taken"]_vars

\* C12: convert_to_onnx_el_type gives back the variant whose tag it is given,
\* for each of the 17 variants, and an error value, without a panic, for every
\* other integer.
C12_TagRoundTrip ==
    last.op = "convert_to_onnx_el_type" =>
        /\ \A k \in 1 .. Len(ElementTypes) :
               last.i = TagOf(ElementTypes[k]) =>
                   last.result = [ok |-> TRUE, t |-> ElementTypes[k]]
        /\ (\A k \in 1 .. Len(ElementTypes) : last.i # TagOf(ElementTypes[k])) =>
               /\ ~last.result.ok
               /\ last.outcome = "err"

\* C12 witness: the tag of the last variant has been converted back to it
C12_Witness ==
    /\ last.op = "convert_to_onnx_el_type"
    /\ last.i = TagOf("BFLOAT16")
    /\ last.result = [ok |-> TRUE, t |-> "BFLOAT16"]

\* C13: building a name table from strings of which one holds a NUL byte
\* returns an error value, rather than aborting.
C13_NulIsAnErrorValue ==
    (/\ last.op = "names_from"
     /\ \E i \in 1 .. Len(last.value) : ~CStringNewOk(last.value[i]))
        => last.outcome = "err"

\* C14: a batch built from n handles has n pointers, keeps the handles in the
\* order given, and its i-th pointer is the native reference of the i-th
\* handle.
C14_BatchMirrorsHandles ==
    last.op = "values_from" =>
        /\ Len(batch.ptrs) = Len(last.given)
        /\ batch.values = last.given
        /\ \A i \in 1 .. Len(last.given) : batch.ptrs[i] = last.given[i].ptr

\* C14 witness: a batch has been built from two handles of distinct tensors
C14_Witness ==
    /\ last.op = "values_from"
    /\ Len(last.given) = 2
    /\ batch.ptrs = <<last.given[1].ptr, last.given[2].ptr>>
    /\ last.given[1].ptr # last.given[2].ptr

\* C15: a constructor called with a shape that holds a negative dimension fails
\* and never hands that shape to the native create call.
C15_NegativeShapeRefused ==
    (/\ last.op \in TypedCtors \cup RawCtors
     /\ \E i \in 1 .. Len(last.shape) : last.shape[i] < 0)
        => /\ last.outcome # "ok"
           /\ ~last.createCalled

\* C16: an invocation of run_io, run_with_io_ref or run_with_values that gets
\* past its own checks calls the native Run exactly once; it returns the
\* failure the native call reported, as an error, and success when the native
\* call reported success.
C16_OneNativeRun ==
    (last.op \in RunOps /\ last.err \notin {"assert_eq", "unwrap"})
        => /\ last.runCalls = 1
           /\ last.native = "err" => last.outcome = "err" /\ last.err = "SessionRun"
           /\ last.native = "ok" => last.outcome = "ok"

\* C16 witness: run_io has returned the failure of its one native Run call
C16_Witness ==
    /\ last.op = "run_io"
    /\ last.native = "err"
    /\ last.outcome = "err"
    /\ last.runCalls = 1

\* C17: every name string run_io turns into a raw pointer has been reclaimed
\* and freed when run_io returns, on every path.
C17_NamesFreed ==
    last.op = "run_io" => last.freed = last.allocated

\* C18: every pointer a run is handed from a batch is the native reference of
\* the handle the batch holds at that position now, and its native tensor has
\* not been released.
C18_BatchPointersCurrent ==
    last.op = "run_with_values" =>
        \A i \in 1 .. Len(last.passed) :
            /\ last.passed[i] = batch.values[i].ptr
            /\ values[last.passed[i]] = 0

====
